---- MODULE Spec2Model ----
(***************************************************************************)
(* A state-machine model of the BeagleY-AI side HAL of                     *)
(* Embedded_Systems_Ensc_351:                                              *)
(*   - hal/src/rotary.c : the rotary encoder service (polling thread,      *)
(*     quadrature decoding, debounced one-shot button flag);               *)
(*   - hal/src/PWM0.c and hal/src/servo.c : the PWM channel and the servo  *)
(*     actuator written through sysfs attributes.                          *)
(* The encoder and the PWM side share no state; each has a specification   *)
(* of its own (Spec, PwmSpec) over the same variables.                     *)
(***************************************************************************)
EXTENDS Integers, Sequences, FiniteSets, TLC

VARIABLES
    \* ---- rotary.c: file-scope state (lines 18-23)
    g_pos,            \* atomic_int g_pos
    g_run,            \* atomic_int g_run
    g_button_edge,    \* atomic_int g_button_edge
    fd_a, fd_b, fd_sw,\* cached value-file descriptors, -1 when not open
    \* ---- rotary.c: encoder_thread, its position and its locals
    pc,               \* "none" | "start" | "check" | "quad" | "button" | "exited"
    last,             \* int last      (previous 2-bit code)
    diff,             \* int diff      (4-bit transition code of the last tick)
    last_sw,          \* int last_sw   (previous button sample)
    sw,               \* int sw        (button sample of the last tick)
    last_sw_time,     \* struct timespec last_sw_time
    \* ---- the controlling thread (caller of init / cleanup) and the last result
    ctl,              \* "idle" | "join" (blocked in pthread_join)
    ret,              \* what its last call did and returned
    \* ---- environment
    ab_line,          \* levels of the quadrature lines A and B, as 2*A + B
    sw_line,          \* level of the button line
    clock,            \* last value CLOCK_MONOTONIC returned
    quota,            \* what the environment and the callers may still do
    \* ---- history (what happened, for stating the properties)
    credit,           \* stores of 1 into g_button_edge by the poller, less the
                      \* rotaryEncoder_button_pressed() calls that returned true
    obs,              \* the last level change the poller observed
    obs_reports,      \* true returns since that observation
    rise_at,          \* instant the poller last observed a rising edge, or NoTime
    reg_at,           \* instant of the last rising edge it registered, or NoTime
    stop_ticks,       \* ticks begun since g_run was cleared
    live,             \* polling threads created and not yet joined
    prev_sample,      \* the 2-bit code sampled by the previous tick
    good_code,        \* the 2-bit code of the last tick whose reads of A and
                      \* B both succeeded, or NoCode
    rose,             \* whether the button line went from released to
                      \* pressed since the poller last stored 1
    cal_v, cal_k, cal_ok, \* last set_position value, forward steps applied since
    \* ---- the PWM channel as the kernel holds it (sysfs pwmchipN/pwm0)
    hw,               \* [exists, period, duty, enable, polarity]
    \* ---- PWM0.c: file-scope state (lines 53-55)
    g_pwm_dir,        \* whether g_pwm_dir holds the channel's path
    g_period_ns,      \* long long g_period_ns
    g_duty_frac,      \* double g_duty_frac, as a fraction [n, d]
    \* ---- servo.c: the Servo object of the caller (servo.h 10-19, main.c 43)
    g_servo,          \* [period_ns, neutral_ns, min_ns, max_ns, base, enabled]
    pwm_ret,          \* the last PWM0_* / servo_* call and what it returned
    pwm_quota,        \* calls and failing operations the run may still have
    pwm_call          \* history: the arguments of the last call, what it met,
                      \* what it found and the writes it issued

encShared == <<g_pos, g_run, g_button_edge, fd_a, fd_b, fd_sw>>
encThread == <<pc, last, diff, last_sw, sw, last_sw_time>>
encCaller == <<ctl, ret>>
encEnv    == <<ab_line, sw_line, clock, quota>>
encHist   == <<credit, obs, obs_reports, rise_at, reg_at,
               stop_ticks, live, prev_sample, good_code, rose,
               cal_v, cal_k, cal_ok>>
encVars   == <<encShared, encThread, encCaller, encEnv, encHist>>

pwmHist   == <<pwm_call>>
pwmVars   == <<hw, g_pwm_dir, g_period_ns, g_duty_frac, g_servo, pwm_ret, pwm_quota,
               pwmHist>>

vars == <<encVars, pwmVars>>

-----------------------------------------------------------------------------
(* Bounds of the model *)

MaxMoves   == 3   \* changes of the sampled quadrature code
MaxToggles == 3   \* level changes of the button line
MaxFails   == 1   \* failed line reads
MaxStarts  == 2   \* polling threads started over the run

(* A run is one of these scenarios.  Each fixes what the environment (the
   knob, the button, the reads) and the callers do at most; the code that
   runs is the same in all of them.
     moves   : changes of the quadrature lines
     toggles : level changes of the button line
     fails   : failed line reads
     starts  : polling threads started
     faults  : whether a system call of rotaryEncoder_init may fail
     sets    : whether rotaryEncoder_set_position is called
     codes   : the 2-bit codes the quadrature lines show
     levels  : the level of the button line at program start            *)
Scenarios ==
    { [name |-> "rotate",  moves |-> MaxMoves, toggles |-> 0, fails |-> 0,
       starts |-> 1, faults |-> FALSE, sets |-> TRUE, codes |-> 0..3,
       levels |-> {0}],
      [name |-> "button",  moves |-> 0, toggles |-> MaxToggles, fails |-> 0,
       starts |-> 1, faults |-> FALSE, sets |-> FALSE, codes |-> {0},
       levels |-> {0, 1}],
      [name |-> "faulty",  moves |-> 1, toggles |-> 1, fails |-> MaxFails,
       starts |-> 1, faults |-> FALSE, sets |-> FALSE, codes |-> {0, 1},
       levels |-> {0, 1}],
      [name |-> "restart", moves |-> 1, toggles |-> 1, fails |-> 0,
       starts |-> MaxStarts, faults |-> TRUE, sets |-> FALSE, codes |-> {0, 1},
       levels |-> {0}] }

(* Program constants *)

IntMax       == 2147483647        \* atomic_int is 32 bits wide
IntMin       == -IntMax - 1
DebounceMs   == 50                \* "dt_ms > 50"
NsecPerMsec  == 1000000           \* "/1000000LL"
MsecPerSec   == 1000              \* "*1000LL"
NsecPerSec   == 1000000000        \* range of tv_nsec
FdOpen       == 3                 \* any descriptor open() returns (>= 0)

-----------------------------------------------------------------------------
(* 32-bit counter arithmetic: atomic_fetch_add / atomic_fetch_sub wrap. *)

Inc32(x) == IF x = IntMax THEN IntMin ELSE x + 1
Dec32(x) == IF x = IntMin THEN IntMax ELSE x - 1

(* x + k in 32 bits, for 0 <= k *)
RECURSIVE Add32(_, _)
Add32(x, k) == IF k = 0 THEN x ELSE Add32(Inc32(x), k - 1)

(* C's integer division truncates toward zero; \div floors. *)
CDiv(a, b) == IF a >= 0 THEN a \div b ELSE -((-a) \div b)

(* struct timespec *)
Time(s, n) == [sec |-> s, nsec |-> n]
ZeroTime   == Time(0, 0)          \* struct timespec last_sw_time = {0}
NoTime     == Time(-1, 0)

(* no 2-bit code read yet *)
NoCode     == -1

(* clock_gettime after d more nanoseconds have passed *)
Advance(t, d) ==
    LET n == t.nsec + d
    IN  IF n >= NsecPerSec THEN Time(t.sec + 1, n - NsecPerSec)
                           ELSE Time(t.sec, n)

(* rotary.c 108-110: dt_ms as the poller computes it *)
DtMs(now, then) ==
    (now.sec - then.sec) * MsecPerSec
        + CDiv(now.nsec - then.nsec, NsecPerMsec)

(* The exact elapsed time between two instants, in nanoseconds, cut off at
   two seconds (everything the debounce compares against is far below). *)
ElapsedNs(now, then) ==
    LET ds == now.sec - then.sec
    IN  IF ds >= 2 THEN 2 * NsecPerSec
        ELSE ds * NsecPerSec + (now.nsec - then.nsec)

-----------------------------------------------------------------------------
(* Inputs *)

(* CLOCK_MONOTONIC when the program starts, and how far it has advanced
   between two readings: usleep(1000) makes that at least 1 ms. *)
BootClock  == Time(7, 899500000)
Deltas     == {1000000, 48600000, 50500000}

(* Values rotaryEncoder_set_position is called with *)
PosInputs  == {-3, IntMax}

(* sysfs_read_int (rotary.c 35-44): the level of the line, or -1 when the
   read fails. *)
sysfs_read_int(level, failed) == IF failed THEN -1 ELSE level

(* What a read of a line at `level` can return, while failures are left. *)
Reads(level, budget) ==
    {sysfs_read_int(level, FALSE)}
        \cup (IF budget > 0 THEN {sysfs_read_int(level, TRUE)} ELSE {})

Failed(r) == IF r < 0 THEN 1 ELSE 0

(* The samples (a, b) one tick can take of the two quadrature lines *)
QuadReads ==
    { ab \in Reads(ab_line \div 2, quota.fails) \X Reads(ab_line % 2, quota.fails) :
        Failed(ab[1]) + Failed(ab[2]) <= quota.fails }

-----------------------------------------------------------------------------
(* encoder_thread: the pure steps *)

(* rotary.c 80, 90: (a<<1) | b.  With a = -1 or b = -1 (a failed read) the
   shift and the or work on negative ints; gcc and clang compute them in
   two's complement: (-1<<1)|b = -2|b, x|-1 = -1. *)
QuadCode(a, b) == IF b < 0 THEN -1 ELSE 2 * a + b

(* rotary.c 93: (last<<2) | state, in two's complement as above: the low two
   bits of last<<2 are clear, and or-ing a negative state gives that state. *)
TransitionCode(l, st) == IF st < 0 THEN st ELSE 4 * l + st

ApplyTransitionMissingCase(d, pos) ==
    IF d \in {1, 7, 8} THEN Inc32(pos)
    ELSE IF d \in {2, 4, 13, 11} THEN Dec32(pos)
    ELSE pos

ApplyTransitionGlitchCounts(d, pos) ==
    IF d \in {1, 6, 7, 14, 8} THEN Inc32(pos)
    ELSE IF d \in {2, 4, 13, 11} THEN Dec32(pos)
    ELSE pos

(* rotary.c 94-100: the switch over the transition code *)
ApplyTransition(d, pos) ==
    IF d \in {1, 7, 14, 8} THEN Inc32(pos)          \* 0x1 0x7 0xE 0x8
    ELSE IF d \in {2, 4, 13, 11} THEN Dec32(pos)    \* 0x2 0x4 0xD 0xB
    ELSE pos

RegistersUndebounced(s, dt_ms) == s = 1

(* rotary.c 113: the test that publishes a press *)
Registers(s, dt_ms) == s = 1 /\ dt_ms > DebounceMs

ReferenceOnRegisterOnly(now, then, registered) ==
    IF registered THEN now ELSE then

(* rotary.c 111: last_sw_time = now, on every change of the sample *)
Reference(now, then, registered) == now

(* The Gray-code cycle 00 -> 01 -> 11 -> 10 -> 00, as the reference the
   decoder is compared with. *)
FwdNext(c) == CASE c = 0 -> 1 [] c = 1 -> 3 [] c = 3 -> 2 [] c = 2 -> 0
IsCode(c)  == c \in 0..3
IsFwd(p, c) == IsCode(p) /\ IsCode(c) /\ c = FwdNext(p)
IsBwd(p, c) == IsCode(p) /\ IsCode(c) /\ p = FwdNext(c)

(* What the poller observed when the button sample last changed:
     kind : "rise" (sample 1), "fall" (sample 0) or "fail" (sample -1)
     from : the sample before
     gap  : the exact time since the change observed before it (since boot
            when there was none), against the debounce threshold
     rgap : the exact time since the rising edge observed before it
     reg  : the exact time since the rising edge registered before it
     set  : whether the poller stored 1 into g_button_edge               *)
GapClass(ns) ==
    IF ns <= DebounceMs * NsecPerMsec THEN "within"
    ELSE IF ns < (DebounceMs + 1) * NsecPerMsec THEN "fraction" ELSE "over"
RiseClass(ns) == IF ns < DebounceMs * NsecPerMsec THEN "within" ELSE "over"

NoObs == [kind |-> "none", from |-> 0, gap |-> "none", rgap |-> "none",
          reg |-> "none", set |-> FALSE]

-----------------------------------------------------------------------------
(* Initial state: the program loaded, rotaryEncoder_init not yet called. *)

EncInit ==
    /\ g_pos = 0 /\ g_run = 0 /\ g_button_edge = 0
    /\ fd_a = -1 /\ fd_b = -1 /\ fd_sw = -1
    /\ pc = "none" /\ last = 0 /\ diff = 0 /\ last_sw = 0 /\ sw = 0
    /\ last_sw_time = ZeroTime
    /\ ctl = "idle" /\ ret = [op |-> "none", cause |-> "none", val |-> 0]
    /\ quota \in Scenarios
    /\ ab_line \in quota.codes
    /\ sw_line \in quota.levels /\ clock = BootClock
    /\ credit = 0 /\ obs = NoObs /\ obs_reports = 0
    /\ rise_at = NoTime /\ reg_at = NoTime
    /\ stop_ticks = 0 /\ prev_sample = 0
    /\ good_code = NoCode /\ rose = FALSE /\ live = 0
    /\ cal_v = 0 /\ cal_k = 0 /\ cal_ok = FALSE

-----------------------------------------------------------------------------
(* encoder_thread *)

(* rotary.c 78-83: the samples taken before the loop *)
encoder_thread_start ==
    /\ pc = "start"
    /\ \E ab \in QuadReads :
       \E s \in Reads(sw_line, quota.fails - Failed(ab[1]) - Failed(ab[2])) :
          /\ last' = QuadCode(ab[1], ab[2])
          /\ last_sw' = s
          /\ sw' = s
          /\ quota' = [quota EXCEPT !.fails =
                          @ - Failed(ab[1]) - Failed(ab[2]) - Failed(s)]
    /\ last_sw_time' = ZeroTime
    /\ prev_sample' = last'
    /\ good_code' = IF last' >= 0 THEN last' ELSE NoCode
    /\ pc' = "check"
    /\ UNCHANGED <<encShared, diff, encCaller, ab_line, sw_line, clock,
                   credit, obs, obs_reports, rise_at, reg_at,
                   stop_ticks, live, rose, cal_v, cal_k, cal_ok>>
    /\ UNCHANGED pwmVars

(* rotary.c 85: while (atomic_load(&g_run)) *)
LoopRunsOn(run) == TRUE
LoopContinues(run) == run # 0

encoder_thread_loop ==
    /\ pc = "check"
    /\ pc' = IF LoopContinues(g_run) THEN "quad" ELSE "exited"
    /\ UNCHANGED <<encShared, last, diff, last_sw, sw, last_sw_time,
                   encCaller, encEnv, encHist>>
    /\ UNCHANGED pwmVars

(* rotary.c 86-101: sleep, sample A and B, decode, remember the code *)
QuadTick(a, b) ==
    LET st == QuadCode(a, b)
        d  == TransitionCode(last, st)
    IN  /\ quota' = [quota EXCEPT !.fails = @ - Failed(a) - Failed(b)]
        /\ diff' = d
        /\ g_pos' = ApplyTransition(d, g_pos)
        /\ last' = st
        /\ prev_sample' = st
        /\ good_code' = IF st >= 0 THEN st ELSE good_code
        /\ cal_ok' = (cal_ok /\ (IsFwd(prev_sample, st) \/ st = prev_sample))
        /\ cal_k' = IF cal_ok /\ IsFwd(prev_sample, st) THEN cal_k + 1 ELSE cal_k
        /\ stop_ticks' = IF g_run = 0 /\ stop_ticks < 2
                          THEN stop_ticks + 1 ELSE stop_ticks
        /\ pc' = "button"
        /\ UNCHANGED <<g_run, g_button_edge, fd_a, fd_b, fd_sw, last_sw, sw,
                       last_sw_time, encCaller, ab_line, sw_line, clock,
                       credit, obs, obs_reports, rise_at, reg_at, rose, live,
                       cal_v>>

encoder_thread_quad ==
    /\ pc = "quad"
    /\ \E ab \in QuadReads : QuadTick(ab[1], ab[2])
    /\ UNCHANGED pwmVars

(* The instant of the change of the button sample observed last: the
   clock stands at it; the epoch while the thread has observed none. *)
ChangedAt == IF obs.kind = "none" THEN ZeroTime ELSE clock

(* rotary.c 104-116: sample the button, debounce, publish a press *)
ButtonTick(s, now) ==
    LET dt_ms == DtMs(now, last_sw_time)
        reg   == Registers(s, dt_ms)
    IN  /\ sw' = s
        /\ quota' = [quota EXCEPT !.fails = @ - Failed(s)]
        /\ pc' = "check"
        /\ IF s # last_sw
           THEN /\ last_sw_time' = Reference(now, last_sw_time, reg)
                /\ last_sw' = s
                /\ clock' = now
                /\ g_button_edge' = IF reg THEN 1 ELSE g_button_edge
                /\ credit' = IF reg THEN credit + 1 ELSE credit
                /\ obs' = [kind |-> IF s = 1 THEN "rise"
                                    ELSE IF s = 0 THEN "fall" ELSE "fail",
                           from |-> last_sw,
                           gap  |-> GapClass(ElapsedNs(now, ChangedAt)),
                           rgap |-> IF s = 1 /\ rise_at # NoTime
                                    THEN RiseClass(ElapsedNs(now, rise_at))
                                    ELSE "none",
                           reg  |-> IF s = 1 /\ reg_at # NoTime
                                    THEN GapClass(ElapsedNs(now, reg_at))
                                    ELSE "none",
                           set  |-> reg]
                /\ obs_reports' = 0
                /\ rise_at' = IF s = 1 THEN now ELSE rise_at
                /\ reg_at' = IF reg THEN now ELSE reg_at
                /\ rose' = IF reg THEN FALSE ELSE rose
           ELSE UNCHANGED <<last_sw_time, last_sw, clock, g_button_edge,
                            credit, obs, obs_reports, rise_at, reg_at, rose>>
        /\ UNCHANGED <<g_pos, g_run, fd_a, fd_b, fd_sw, last, diff, encCaller,
                       ab_line, sw_line, stop_ticks, live,
                       prev_sample, good_code, cal_v, cal_k, cal_ok>>

encoder_thread_button ==
    /\ pc = "button"
    /\ \E s \in Reads(sw_line, quota.fails) :
          IF s # last_sw
          THEN \E d \in Deltas : ButtonTick(s, Advance(clock, d))
          ELSE ButtonTick(s, clock)
    /\ UNCHANGED pwmVars

-----------------------------------------------------------------------------
(* The public API of rotary.c *)

(* What the system calls of one rotaryEncoder_init can do: the three exports,
   the three direction writes, each open(), pthread_create. *)
InitOutcomes ==
    { o \in [export : BOOLEAN, dir : BOOLEAN, open_a : BOOLEAN,
             open_b : BOOLEAN, open_sw : BOOLEAN, create : BOOLEAN] :
        \* a call that is never made has no outcome: count it as TRUE
        /\ ~o.export => o.dir
        /\ ~o.dir => (o.open_a /\ o.open_b /\ o.open_sw)
        /\ ~(o.open_a /\ o.open_b /\ o.open_sw) => o.create }

InitCause(o) ==
    IF ~o.export THEN "export"
    ELSE IF ~o.dir THEN "dir"
    ELSE IF ~(o.open_a /\ o.open_b /\ o.open_sw) THEN "open"
    ELSE IF ~o.create THEN "create"
    ELSE "none"

(* rotary.c 126-141: pthread_create is reached only when the exports, the
   direction writes and the three open() calls have all succeeded *)
ReachesCreateDespiteOpen(cause) == cause \in {"none", "create", "open"}
ReachesCreate(cause) == cause \in {"none", "create"}

(* gpio_open_value (rotary.c 66-71): a descriptor, or -1 *)
gpio_open_value(ok) == IF ok THEN FdOpen ELSE -1

(* rotary.c 122-152, called with g_run clear *)
InitAttempt(o) ==
    LET cause == InitCause(o)
    IN  /\ (ReachesCreate(cause) /\ cause # "create") => quota.starts > 0
        /\ cause # "none" => quota.faults
        /\ ret' = [op |-> "init", cause |-> cause,
                   val |-> IF cause = "none" THEN 0 ELSE -1]
        /\ IF cause \in {"export", "dir"}
           THEN UNCHANGED <<fd_a, fd_b, fd_sw>>
           ELSE /\ fd_a'  = gpio_open_value(o.open_a)
                /\ fd_b'  = gpio_open_value(o.open_b)
                /\ fd_sw' = gpio_open_value(o.open_sw)
        /\ IF ReachesCreate(cause)
           THEN /\ g_pos' = 0
                /\ g_button_edge' = 0
                /\ cal_ok' = FALSE
                /\ obs' = NoObs /\ obs_reports' = 0 /\ rise_at' = NoTime
                /\ reg_at' = NoTime
           ELSE UNCHANGED <<g_pos, g_button_edge, cal_ok, obs, obs_reports,
                            rise_at, reg_at>>
        /\ IF ReachesCreate(cause) /\ cause # "create"
           THEN /\ g_run' = 1
                /\ pc' = "start"
                /\ quota' = [quota EXCEPT !.starts = @ - 1]
                /\ stop_ticks' = 0
                /\ live' = live + 1
           ELSE UNCHANGED <<g_run, pc, quota, stop_ticks, live>>
        /\ UNCHANGED <<last, diff, last_sw, sw, last_sw_time, ctl, ab_line,
                       sw_line, clock, credit, prev_sample, good_code, rose,
                       cal_v, cal_k>>

AlreadyRunningIgnored(run) == FALSE

(* rotary.c 124: if (atomic_load(&g_run)) return 0; *)
AlreadyRunning(run) == run # 0

rotaryEncoder_init ==
    /\ ctl = "idle"
    /\ IF AlreadyRunning(g_run)
       THEN /\ ret' = [op |-> "init", cause |-> "running", val |-> 0]
            /\ UNCHANGED <<encShared, encThread, ctl, encEnv, encHist>>
       ELSE \E o \in InitOutcomes : InitAttempt(o)
    /\ UNCHANGED pwmVars

CleanupCallUnguarded ==
    /\ g_run' = 0
    /\ ctl' = "join"
    /\ UNCHANGED <<g_pos, g_button_edge, fd_a, fd_b, fd_sw, encThread,
                   ret, encEnv, encHist>>

(* rotary.c 156: if (!atomic_exchange(&g_run, 0)) return; *)
CleanupCall ==
    IF g_run = 0
    THEN /\ ret' = [op |-> "cleanup", cause |-> "noop", val |-> 0]
         /\ UNCHANGED <<encShared, encThread, ctl, encEnv, encHist>>
    ELSE /\ g_run' = 0
         /\ ctl' = "join"
         /\ UNCHANGED <<g_pos, g_button_edge, fd_a, fd_b, fd_sw, encThread,
                        ret, encEnv, encHist>>

rotaryEncoder_cleanup ==
    /\ ctl = "idle"
    /\ CleanupCall
    /\ UNCHANGED pwmVars

(* rotary.c 157-161: pthread_join returns once the thread has ended *)
rotaryEncoder_cleanup_join ==
    /\ ctl = "join"
    /\ pc = "exited"
    /\ fd_a' = -1 /\ fd_b' = -1 /\ fd_sw' = -1
    /\ ctl' = "idle"
    /\ ret' = [op |-> "cleanup", cause |-> "joined", val |-> 0]
    /\ live' = live - 1
    /\ UNCHANGED <<g_pos, g_run, g_button_edge, encThread, encEnv,
                   credit, obs, obs_reports, rise_at, reg_at, stop_ticks,
                   prev_sample, good_code, rose, cal_v, cal_k, cal_ok>>
    /\ UNCHANGED pwmVars

(* rotary.c 164-167: the value a caller gets *)
GetPosition == g_pos

rotaryEncoder_get_position ==
    /\ GetPosition \in Int
    /\ UNCHANGED encVars
    /\ UNCHANGED pwmVars

SetPositionResetsDecoder(v) ==
    /\ g_pos' = v
    /\ last' = 0
    /\ cal_v' = v /\ cal_k' = 0 /\ cal_ok' = TRUE
    /\ UNCHANGED <<g_run, g_button_edge, fd_a, fd_b, fd_sw, pc, diff, last_sw,
                   sw, last_sw_time, encCaller, encEnv, credit, obs,
                   obs_reports, rise_at, reg_at, stop_ticks, prev_sample,
                   good_code, rose, live>>

(* rotary.c 169-172 *)
SetPosition(v) ==
    /\ g_pos' = v
    /\ cal_v' = v /\ cal_k' = 0 /\ cal_ok' = TRUE
    /\ UNCHANGED <<g_run, g_button_edge, fd_a, fd_b, fd_sw, encThread,
                   encCaller, encEnv, credit, obs, obs_reports, rise_at, reg_at,
                   stop_ticks, prev_sample, good_code, rose, live>>

rotaryEncoder_set_position ==
    /\ quota.sets
    /\ \E v \in PosInputs : SetPosition(v)
    /\ UNCHANGED pwmVars

ButtonPressedLoadOnly ==
    LET was == g_button_edge
    IN  /\ credit' = IF was # 0 THEN credit - 1 ELSE credit
        /\ obs_reports' = IF was # 0 THEN obs_reports + 1 ELSE obs_reports
        /\ UNCHANGED <<encShared, encThread, encCaller, encEnv, obs, rise_at, reg_at,
                       stop_ticks, live, prev_sample, good_code, rose, cal_v, cal_k,
                       cal_ok>>

(* rotary.c 174-178: atomic_exchange(&g_button_edge, 0) != 0 *)
ButtonPressed ==
    LET was == g_button_edge
    IN  /\ g_button_edge' = 0
        /\ credit' = IF was # 0 THEN credit - 1 ELSE credit
        /\ obs_reports' = IF was # 0 THEN obs_reports + 1 ELSE obs_reports
        /\ UNCHANGED <<g_pos, g_run, fd_a, fd_b, fd_sw, encThread, encCaller,
                       encEnv, obs, rise_at, reg_at, stop_ticks, prev_sample,
                       good_code, rose, live,
                       cal_v, cal_k, cal_ok>>

rotaryEncoder_button_pressed == ButtonPressed /\ UNCHANGED pwmVars

-----------------------------------------------------------------------------
(* Environment: the knob is turned; the button is pressed or released. *)

KnobTurn ==
    /\ quota.moves > 0
    /\ \E c \in quota.codes \ {ab_line} : ab_line' = c
    /\ quota' = [quota EXCEPT !.moves = @ - 1]
    /\ UNCHANGED <<encShared, encThread, encCaller, sw_line, clock, encHist>>
    /\ UNCHANGED pwmVars

ButtonToggle ==
    /\ quota.toggles > 0
    /\ sw_line' = 1 - sw_line
    /\ quota' = [quota EXCEPT !.toggles = @ - 1]
    /\ rose' = (rose \/ sw_line' = 1)
    /\ UNCHANGED <<encShared, encThread, encCaller, ab_line, clock,
                   credit, obs, obs_reports, rise_at, reg_at, stop_ticks,
                   live, prev_sample, good_code, cal_v, cal_k, cal_ok>>
    /\ UNCHANGED pwmVars

-----------------------------------------------------------------------------
(* The PWM channel.  PWM0.c and servo.c program it through the sysfs
   attributes period, duty_cycle, enable and polarity of pwmchipN/pwm0; the
   model has one channel, which both address. *)

MaxCalls       == 3   \* PWM0_* and servo_* calls of a run
MaxWriteFaults == 1   \* attribute reads and writes of a run that fail for a
                      \* reason of their own (open() or write() fails)

EIO            == 5   \* -EIO, what servo_set_pulse_ns returns when not enabled
BringUpTries   == 3   \* PWM0_init: for (attempt = 0; attempt < 3; ...)
FallbackTries  == 2   \* PWM0_set_freq: for (attempt = 0; attempt < 2; ...)
NsPerSecond    == 1000000000  \* 1e9 / hz
PctMax         == 100 \* clamp(pct, 0, 100), (span * pct) / 100

(* A fraction n/d, d > 0, in lowest terms: the value of a double. *)
RECURSIVE GCD(_, _)
GCD(a, b) == IF b = 0 THEN a ELSE GCD(b, a % b)

Frac(n, d) ==
    LET g == GCD(n, d)
    IN  IF g = 0 THEN [n |-> 0, d |-> 1] ELSE [n |-> n \div g, d |-> d \div g]

FracLess(x, y) == x.n * y.d < y.n * x.d

(* llround of num/den for num >= 0: to the nearest, halves away from zero *)
llround(num, den) == (2 * num + den) \div (2 * den)

RatioMin == Frac(5, 100)     \* 0.05
RatioMax == Frac(95, 100)    \* 0.95
RatioMid == Frac(50, 100)    \* 0.50

(* Inputs of the calls *)
HzInputs     == {0, 50, 100, IntMax}
DutyInputs   == {Frac(0, 1), Frac(1, 40), Frac(1, 2), Frac(1, 1)}
ServoConfigs ==   \* <<period_ns, neutral_ns, min_ns, max_ns>>; the first is main.c's
    { <<20000000, 1600000, 1200000, 2000000>>,
      <<20000000, 1600000, 0, 20000000>>,
      <<20000000, 20000000, 1200000, 20000000>> }
PulseInputs  == {0, 1600000, 25000000}
PctInputs    == {0, 50, 100, 150}

(* The calls of PWM0.c and of servo.c *)
PwmOps ==
    {"PWM0_init", "PWM0_set_freq", "PWM0_set_duty", "PWM0_cleanup",
     "servo_init", "servo_set_pulse_ns", "servo_right", "servo_left",
     "servo_stop", "servo_close"}

(* What a run does with the channel, and how much of it: a program that
   drives it through PWM0.c alone, one that drives it through servo.c alone
   (main.c), one that uses both on the one channel.
     uses   : the module(s) the program calls
     calls  : how many calls it makes
     faults : how many reads and writes of attributes fail for a reason of
              their own
     faulty : the calls in which they fail                                *)
PwmScenarios ==
    { [name |-> "pwm0",   uses |-> {"PWM0"},  calls |-> MaxCalls,     faults |-> 0,
       faulty |-> PwmOps],
      [name |-> "pwm0-faulty", uses |-> {"PWM0"},
       calls |-> MaxCalls - 1, faults |-> MaxWriteFaults,
       faulty |-> {"PWM0_init", "PWM0_cleanup"}],
      [name |-> "duty-faulty", uses |-> {"PWM0"},
       calls |-> MaxCalls, faults |-> MaxWriteFaults + 1,
       faulty |-> {"PWM0_set_duty"}],
      [name |-> "freq-faulty", uses |-> {"PWM0"},
       calls |-> MaxCalls, faults |-> MaxWriteFaults,
       faulty |-> {"PWM0_set_freq"}],
      [name |-> "servo",  uses |-> {"servo"}, calls |-> MaxCalls,     faults |-> 0,
       faulty |-> PwmOps],
      [name |-> "servo-faulty", uses |-> {"servo"},
       calls |-> MaxCalls - 1, faults |-> MaxWriteFaults, faulty |-> PwmOps],
      [name |-> "shared", uses |-> {"PWM0", "servo"},
       calls |-> MaxCalls,     faults |-> 0, faulty |-> PwmOps] }

CallsPWM0  == pwm_quota.calls > 0 /\ "PWM0" \in pwm_quota.uses
CallsServo == pwm_quota.calls > 0 /\ "servo" \in pwm_quota.uses

(* The operations of one call that fail for a reason of their own, by their
   position in the call: the patterns of at most k failures among the first
   n operations. *)
RECURSIVE FaultPatterns(_, _)
FaultPatterns(k, n) ==
    IF k = 0 THEN {{}}
    ELSE LET P == FaultPatterns(k - 1, n)
         IN  P \cup { F \cup {i} : F \in P, i \in 1..n }

(* The patterns a call op of at most n operations can meet: within what
   the run has left. *)
Faults(op, n) ==
    IF op \in pwm_quota.faulty THEN FaultPatterns(pwm_quota.faults, n) ELSE {{}}

(* After a call that issued n operations under the pattern F; every fault
   of a pattern is one that is met. *)
Spend(F, n) ==
    /\ \A k \in F : k <= n
    /\ pwm_quota' = [pwm_quota EXCEPT !.calls = @ - 1,
                                      !.faults = @ - Cardinality(F)]

(* What a request to export the channel can come to (servo.c 44-71,
   PWM0.c 74-88): the directory appears; the write succeeds but no directory
   appears within the wait; the write fails with EBUSY; it fails otherwise;
   there is no pwmchip directory at all. *)
ExportOutcomes == {"appears", "never", "busy", "error", "nochip"}

(* The outcomes to tell apart for a channel h: one when it is exported
   already, or when its directory is known and no export is tried. *)
ExportChoices(h, known) ==
    IF h.exists \/ known THEN {"appears"} ELSE ExportOutcomes

(* The channel at boot: never exported; or left exported and programmed by
   an earlier run. *)
HwFresh == [exists |-> FALSE, period |-> 0, duty |-> 0, enable |-> 0,
            polarity |-> "normal"]
HwBoot ==
    { HwFresh,
      [exists |-> TRUE, period |-> 20000000, duty |-> 1600000, enable |-> 0,
       polarity |-> "inversed"] }

(* What the kernel accepts: "EINVAL when period < old duty" (PWM0.c 134-135),
   "EINVAL when current duty > new period" (PWM0.c 207-208); nothing is
   accepted while the period is 0, and a duty of 0 or of the whole period is
   in range. *)
HwAccepts(h, attr, v) ==
    CASE attr = "period"     -> v > 0 /\ h.duty <= v
      [] attr = "duty_cycle" -> h.period > 0 /\ 0 <= v /\ v <= h.period
      [] attr = "enable"     -> h.period > 0 /\ v \in {0, 1}
      [] attr = "polarity"   -> h.period > 0

HwStore(h, attr, v) ==
    CASE attr = "period"     -> [h EXCEPT !.period = v]
      [] attr = "duty_cycle" -> [h EXCEPT !.duty = v]
      [] attr = "enable"     -> [h EXCEPT !.enable = v]
      [] attr = "polarity"   -> [h EXCEPT !.polarity = v]

HwLoad(h, attr) ==
    CASE attr = "period"     -> h.period
      [] attr = "duty_cycle" -> h.duty
      [] attr = "enable"     -> h.enable

(* A call in progress: the channel, the operations issued so far, those
   that will fail, the result of the last one; the stage the call is in and
   the writes it has issued, each with its stage, attribute, value and
   whether it succeeded. *)
Begin(h, F) == [hw |-> h, n |-> 0, faults |-> F, ok |-> TRUE, val |-> 0,
                st |-> "call", log |-> <<>>]

Stage(m, tag) == [m EXCEPT !.st = tag]

Logged(m, attr, v, good) ==
    Append(m.log, [st |-> m.st, attr |-> attr, v |-> v, ok |-> good])

(* write_ll / write_str (PWM0.c 22-36), write_int / write_str (servo.c 13-29)
   on an attribute of the channel *)
Wr(m, attr, v) ==
    LET k    == m.n + 1
        good == m.hw.exists /\ k \notin m.faults /\ HwAccepts(m.hw, attr, v)
    IN  [m EXCEPT !.n = k, !.ok = good,
                  !.hw = IF good THEN HwStore(@, attr, v) ELSE @,
                  !.log = Logged(m, attr, v, good)]

(* the same on a path that names no file *)
WrNoFile(m, attr, v) ==
    [m EXCEPT !.n = m.n + 1, !.ok = FALSE, !.log = Logged(m, attr, v, FALSE)]

(* read_ll (PWM0.c 287-295): the value, or -1 *)
Rd(m, attr) ==
    LET k    == m.n + 1
        good == m.hw.exists /\ k \notin m.faults
    IN  [m EXCEPT !.n = k, !.ok = good,
                  !.val = IF good THEN HwLoad(m.hw, attr) ELSE -1]

(* a write of the channel number to pwmchipN/unexport *)
Unexport(m) ==
    LET k    == m.n + 1
        good == m.hw.exists /\ k \notin m.faults
    IN  [m EXCEPT !.n = k, !.ok = good,
                  !.hw = IF good THEN [@ EXCEPT !.exists = FALSE] ELSE @,
                  !.log = Logged(m, "unexport", 0, good)]

Result(op, val) == [op |-> op, val |-> val]

(* The history of a call: its arguments, the outcome of its export request,
   whether it follows a servo_close, the channel and the cached period and ratio it
   found, its writes. *)
NoArg == [hz |-> 0, duty |-> [n |-> 0, d |-> 1], cfg |-> <<0, 0, 0, 0>>,
          ns |-> 0, pct |-> 0]

Call(arg, e, log) ==
    [arg |-> arg, e |-> e, after_close |-> pwm_ret.op = "servo_close",
     hw0 |-> hw, per0 |-> g_period_ns,
     frac0 |-> g_duty_frac, servo0 |-> g_servo, log |-> log]

PwmInit ==
    /\ hw \in HwBoot
    /\ g_pwm_dir = FALSE
    /\ g_period_ns = 0
    /\ g_duty_frac = RatioMid
    /\ g_servo = [period_ns |-> 0, neutral_ns |-> 0, min_ns |-> 0,
                  max_ns |-> 0, base |-> FALSE, enabled |-> FALSE]
    /\ pwm_ret = Result("none", 0)
    /\ pwm_quota \in PwmScenarios
    /\ pwm_call = Call(NoArg, "none", <<>>)

-----------------------------------------------------------------------------
(* PWM0.c *)

(* PWM0.c 58-66 *)
bounded_dc_from_ratio(ratio, per) ==
    LET r1  == IF FracLess(ratio, RatioMin) THEN RatioMin ELSE ratio
        r2  == IF FracLess(RatioMax, r1) THEN RatioMax ELSE r1
        dc  == llround(r2.n * per, r2.d)
        dc1 == IF dc <= 0 THEN 1 ELSE dc
    IN  IF dc1 >= per THEN per - 1 ELSE dc1

(* PWM0.c 123-124, 180-181: llround(1e9 / hz), at least 1, for hz > 0 *)
PeriodOf(hz) ==
    LET q   == NsPerSecond \div hz
        r   == NsPerSecond % hz
        per == IF r >= hz - r THEN q + 1 ELSE q
    IN  IF per < 1 THEN 1 ELSE per

(* PWM0.c 69-108: whether a usable channel directory is known afterwards,
   and the channel *)
probe_find_pwm(h, dir, e) ==
    IF dir THEN [hw |-> h, found |-> TRUE]
    ELSE IF e = "nochip" THEN [hw |-> h, found |-> FALSE]
    ELSE IF h.exists THEN [hw |-> h, found |-> TRUE]
    ELSE IF e = "appears"
         THEN [hw |-> [h EXCEPT !.exists = TRUE], found |-> TRUE]
         ELSE [hw |-> h, found |-> FALSE]

(* the stage of the writes of a bring-up attempt: PWM0.c 129, attempt 0.. *)
TryTag(attempt) ==
    CASE attempt = 0 -> "try1" [] attempt = 1 -> "try2" [] attempt = 2 -> "try3"
      [] OTHER -> "try4"

(* the bring-up attempts, were the period written before the duty is
   primed, and the channel enabled whatever became of the duty write *)
RECURSIVE BringUpPeriodFirst(_, _, _, _)
BringUpPeriodFirst(m, attempt, per_ns, dty_ns) ==
    IF attempt >= BringUpTries THEN [m |-> m, rc |-> -1]
    ELSE LET m1 == Wr(Stage(m, TryTag(attempt)), "enable", 0)
             m2 == Wr(m1, "period", per_ns)
             m3 == Wr(m2, "duty_cycle", 1)
             m4 == Wr(m3, "duty_cycle", dty_ns)
             m5 == Wr(m4, "enable", 1)
         IN  IF ~m2.ok THEN BringUpPeriodFirst(m3, attempt + 1, per_ns, dty_ns)
             ELSE IF ~m5.ok THEN BringUpPeriodFirst(m5, attempt + 1, per_ns, dty_ns)
             ELSE [m |-> m5, rc |-> 0]

(* PWM0.c 129-161: the bring-up attempts *)
RECURSIVE BringUp(_, _, _, _)
BringUp(m, attempt, per_ns, dty_ns) ==
    IF attempt >= BringUpTries THEN [m |-> m, rc |-> -1]
    ELSE LET m1 == Wr(Stage(m, TryTag(attempt)), "enable", 0)
             m2 == Wr(m1, "duty_cycle", 1)
             m3 == Wr(m2, "period", per_ns)
             m4 == Wr(m3, "duty_cycle", dty_ns)
             m5 == Wr(m4, "enable", 1)
         IN  IF ~m3.ok THEN BringUp(m3, attempt + 1, per_ns, dty_ns)
             ELSE IF ~m4.ok THEN BringUp(m4, attempt + 1, per_ns, dty_ns)
             ELSE IF ~m5.ok THEN BringUp(m5, attempt + 1, per_ns, dty_ns)
             ELSE [m |-> m5, rc |-> 0]

(* PWM0.c 110-167 *)
PWM0_init_call(hz_in, duty_in, e, F) ==
    LET p   == probe_find_pwm(hw, g_pwm_dir, e)
        arg == [NoArg EXCEPT !.hz = hz_in, !.duty = duty_in]
    IN  IF ~p.found
        THEN /\ hw' = p.hw
             /\ pwm_ret' = Result("PWM0_init", -1)
             /\ pwm_call' = Call(arg, e, <<>>)
             /\ Spend(F, 0)
             /\ UNCHANGED <<g_pwm_dir, g_period_ns, g_duty_frac>>
        ELSE LET hz     == IF hz_in <= 0 THEN 100 ELSE hz_in
                 d1     == IF FracLess(duty_in, RatioMin) THEN RatioMid ELSE duty_in
                 duty   == IF FracLess(RatioMax, d1) THEN RatioMid ELSE d1
                 per_ns == PeriodOf(hz)
                 dty_ns == bounded_dc_from_ratio(duty, per_ns)
                 b      == BringUp(Begin(p.hw, F), 0, per_ns, dty_ns)
             IN  /\ hw' = b.m.hw
                 /\ g_pwm_dir' = TRUE
                 /\ pwm_ret' = Result("PWM0_init", b.rc)
                 /\ pwm_call' = Call(arg, e, b.m.log)
                 /\ Spend(F, b.m.n)
                 /\ IF b.rc = 0
                    THEN /\ g_period_ns' = per_ns
                         /\ g_duty_frac' = Frac(dty_ns, per_ns)
                    ELSE UNCHANGED <<g_period_ns, g_duty_frac>>

PWM0_init ==
    /\ CallsPWM0
    /\ \E hz \in HzInputs, duty \in DutyInputs,
          e \in ExportChoices(hw, g_pwm_dir), F \in Faults("PWM0_init", 15) :
             PWM0_init_call(hz, duty, e, F)
    /\ UNCHANGED <<g_servo, encVars>>

(* the fallback attempts, were the duty not primed to 1 ns before the
   period is written *)
RECURSIVE FallbackUnprimed(_, _, _, _)
FallbackUnprimed(m, attempt, new_per, new_dty) ==
    IF attempt >= FallbackTries THEN [m |-> m, rc |-> -1]
    ELSE LET c1 == Wr(Stage(m, IF attempt = 0 THEN "C1" ELSE "C2"), "enable", 0)
             c3 == Wr(c1, "period", new_per)
             c4 == IF c3.ok THEN Wr(c3, "duty_cycle", new_dty) ELSE c3
             c5 == Wr(c4, "enable", 1)
         IN  IF c3.ok /\ c4.ok
             THEN IF c5.ok THEN [m |-> c5, rc |-> 0]
                  ELSE FallbackUnprimed(c5, attempt + 1, new_per, new_dty)
             ELSE FallbackUnprimed(c5, attempt + 1, new_per, new_dty)

(* PWM0.c 217-236: the fallback attempts *)
RECURSIVE Fallback(_, _, _, _)
Fallback(m, attempt, new_per, new_dty) ==
    IF attempt >= FallbackTries THEN [m |-> m, rc |-> -1]
    ELSE LET c1 == Wr(Stage(m, IF attempt = 0 THEN "C1" ELSE "C2"), "enable", 0)
             c2 == Wr(c1, "duty_cycle", 1)
             c3 == Wr(c2, "period", new_per)
             c4 == IF c3.ok THEN Wr(c3, "duty_cycle", new_dty) ELSE c3
             c5 == Wr(c4, "enable", 1)
         IN  IF c3.ok /\ c4.ok
             THEN IF c5.ok THEN [m |-> c5, rc |-> 0]
                  ELSE Fallback(c5, attempt + 1, new_per, new_dty)
             ELSE Fallback(c5, attempt + 1, new_per, new_dty)

(* the ladder, were fast path B run whether or not fast path A succeeded *)
SetFreqLadderRunsOn(m0, new_per, new_dty) ==
    LET m1 == Rd(Stage(m0, "pre"), "enable")
        m2 == IF m1.val = 0 THEN Wr(m1, "enable", 1) ELSE m1
        a1 == Wr(Stage(m2, "A"), "period", new_per)
        a2 == IF a1.ok THEN Wr(a1, "duty_cycle", new_dty) ELSE a1
        b1 == Wr(Stage(a2, "B"), "duty_cycle", 1)
        b2 == IF b1.ok THEN Wr(b1, "period", new_per) ELSE b1
        b3 == IF b2.ok THEN Wr(b2, "duty_cycle", new_dty) ELSE b2
    IN  IF b1.ok /\ b2.ok /\ b3.ok THEN [m |-> b3, rc |-> 0]
        ELSE Fallback(b3, 0, new_per, new_dty)

(* PWM0.c 184-240: the ladder of PWM0_set_freq *)
SetFreqLadder(m0, new_per, new_dty) ==
    LET m1 == Rd(Stage(m0, "pre"), "enable")
        m2 == IF m1.val = 0 THEN Wr(m1, "enable", 1) ELSE m1
        \* fast path A
        a1 == Wr(Stage(m2, "A"), "period", new_per)
        a2 == IF a1.ok THEN Wr(a1, "duty_cycle", new_dty) ELSE a1
        \* fast path B
        b1 == Wr(Stage(a2, "B"), "duty_cycle", 1)
        b2 == IF b1.ok THEN Wr(b1, "period", new_per) ELSE b1
        b3 == IF b2.ok THEN Wr(b2, "duty_cycle", new_dty) ELSE b2
    IN  IF a1.ok /\ a2.ok THEN [m |-> a2, rc |-> 0]
        ELSE IF b1.ok /\ b2.ok /\ b3.ok THEN [m |-> b3, rc |-> 0]
        ELSE Fallback(b3, 0, new_per, new_dty)

(* PWM0.c 171-241 *)
PWM0_set_freq_call(hz, F) ==
    IF ~g_pwm_dir \/ hz <= 0
    THEN /\ pwm_ret' = Result("PWM0_set_freq", -1)
         /\ pwm_call' = Call([NoArg EXCEPT !.hz = hz], "none", <<>>)
         /\ Spend(F, 0)
         /\ UNCHANGED <<hw, g_pwm_dir, g_period_ns, g_duty_frac>>
    ELSE LET new_per == PeriodOf(hz)
             new_dty == bounded_dc_from_ratio(g_duty_frac, new_per)
             r       == SetFreqLadder(Begin(hw, F), new_per, new_dty)
         IN  /\ hw' = r.m.hw
             /\ pwm_ret' = Result("PWM0_set_freq", r.rc)
             /\ pwm_call' = Call([NoArg EXCEPT !.hz = hz], "none", r.m.log)
             /\ Spend(F, r.m.n)
             /\ IF r.rc = 0
                THEN /\ g_period_ns' = new_per
                     /\ g_duty_frac' = Frac(new_dty, new_per)
                ELSE UNCHANGED <<g_period_ns, g_duty_frac>>
             /\ UNCHANGED g_pwm_dir

PWM0_set_freq ==
    /\ CallsPWM0
    /\ \E hz \in HzInputs, F \in Faults("PWM0_set_freq", 17) :
          PWM0_set_freq_call(hz, F)
    /\ UNCHANGED <<g_servo, encVars>>

(* PWM0.c 259-274: the duty write and its fallback *)
SetDutyWrite(m0, dc) ==
    LET w1 == Wr(m0, "duty_cycle", dc)
        r  == Rd(w1, "enable")
        was_enabled == IF r.val < 0 THEN 1 ELSE r.val
        f1 == Wr(r, "enable", 0)
        f2 == Wr(f1, "duty_cycle", 1)
        f3 == Wr(f2, "duty_cycle", dc)
        f4 == IF was_enabled # 0 THEN Wr(f3, "enable", 1) ELSE f3
    IN  IF w1.ok THEN [m |-> w1, rc |-> 0]
        ELSE [m |-> f4, rc |-> IF f3.ok THEN 0 ELSE -1]

(* PWM0.c 243-275 *)
PWM0_set_duty_call(duty, F) ==
    IF ~g_pwm_dir
    THEN /\ pwm_ret' = Result("PWM0_set_duty", -1)
         /\ pwm_call' = Call([NoArg EXCEPT !.duty = duty], "none", <<>>)
         /\ Spend(F, 0)
         /\ UNCHANGED <<hw, g_pwm_dir, g_period_ns, g_duty_frac>>
    ELSE LET m0 == Begin(hw, F)
             rp == IF g_period_ns <= 0 THEN Rd(m0, "period") ELSE m0
             per == IF g_period_ns <= 0 THEN rp.val ELSE g_period_ns
         IN  IF per <= 0
             THEN /\ pwm_ret' = Result("PWM0_set_duty", -1)
                  /\ pwm_call' = Call([NoArg EXCEPT !.duty = duty], "none", <<>>)
                  /\ Spend(F, rp.n)
                  /\ UNCHANGED <<hw, g_pwm_dir, g_period_ns, g_duty_frac>>
             ELSE LET r == SetDutyWrite(rp, bounded_dc_from_ratio(duty, per))
                  IN  /\ g_period_ns' = per
                      /\ g_duty_frac' = duty
                      /\ hw' = r.m.hw
                      /\ pwm_ret' = Result("PWM0_set_duty", r.rc)
                      /\ pwm_call' = Call([NoArg EXCEPT !.duty = duty], "none",
                                          r.m.log)
                      /\ Spend(F, r.m.n)
                      /\ UNCHANGED g_pwm_dir

PWM0_set_duty ==
    /\ CallsPWM0
    /\ \E duty \in DutyInputs, F \in Faults("PWM0_set_duty", 7) :
          PWM0_set_duty_call(duty, F)
    /\ UNCHANGED <<g_servo, encVars>>

(* PWM0.c 277-284 *)
PWM0_cleanup ==
    /\ CallsPWM0
    /\ \E F \in Faults("PWM0_cleanup", 1) :
          LET m0 == Begin(hw, F)
              m1 == IF g_pwm_dir THEN Wr(m0, "enable", 0) ELSE m0
          IN  /\ hw' = m1.hw
              /\ pwm_call' = Call(NoArg, "none", m1.log)
              /\ Spend(F, m1.n)
    /\ pwm_ret' = Result("PWM0_cleanup", 0)
    /\ UNCHANGED <<g_pwm_dir, g_period_ns, g_duty_frac, g_servo, encVars>>

-----------------------------------------------------------------------------
(* servo.c *)

(* servo.c 74-79 *)
clamp(v, lo, hi) == IF v < lo THEN lo ELSE IF v > hi THEN hi ELSE v

(* servo.c 81-90 *)
pct_to_ns(sv, pct_in, dir) ==
    LET pct   == clamp(pct_in, 0, PctMax)
        sp    == sv.max_ns - sv.neutral_ns
        span  == IF sp < 0 THEN -sp ELSE sp
        delta == CDiv(span * pct, PctMax)
    IN  IF dir >= 0 THEN sv.neutral_ns + delta ELSE sv.neutral_ns - delta

(* servo.c 37-72: the channel afterwards and what export_pwm returns *)
export_pwm(h, e) ==
    IF e = "nochip" THEN [hw |-> h, rc |-> -1]
    ELSE IF h.exists THEN [hw |-> h, rc |-> 0]
    ELSE CASE e = "appears" -> [hw |-> [h EXCEPT !.exists = TRUE], rc |-> 0]
           [] e = "never"   -> [hw |-> h, rc |-> 0]
           [] e = "busy"    -> [hw |-> h, rc |-> 0]
           [] e = "error"   -> [hw |-> h, rc |-> -1]

(* the bring-up writes, were a failed write of the period or of the duty not
   to end them *)
ServoBringUpIgnoresFailures(m0, period_ns, neutral_ns) ==
    LET m1 == Wr(Stage(m0, TryTag(0)), "enable", 0)
        m2 == Wr(m1, "duty_cycle", 1)
        m3 == IF m2.hw.exists THEN Wr(m2, "polarity", "normal") ELSE m2
        m4 == Wr(m3, "period", period_ns)
        m5 == Wr(m4, "duty_cycle", neutral_ns)
        m6 == Wr(m5, "enable", 1)
    IN  [m |-> m6, rc |-> IF m6.ok THEN 0 ELSE -1]

(* servo.c 128-142: the bring-up writes of servo_init *)
ServoBringUp(m0, period_ns, neutral_ns) ==
    LET m1 == Wr(Stage(m0, TryTag(0)), "enable", 0)
        m2 == Wr(m1, "duty_cycle", 1)
        m3 == IF m2.hw.exists THEN Wr(m2, "polarity", "normal") ELSE m2
        m4 == Wr(m3, "period", period_ns)
        m5 == Wr(m4, "duty_cycle", neutral_ns)
        m6 == Wr(m5, "enable", 1)
    IN  IF ~m4.ok THEN [m |-> m4, rc |-> -1]
        ELSE IF ~m5.ok THEN [m |-> m5, rc |-> -1]
        ELSE IF ~m6.ok THEN [m |-> m6, rc |-> -1]
        ELSE [m |-> m6, rc |-> 0]

(* servo.c 92-143 *)
servo_init_call(cfg, e, F) ==
    LET s0 == [period_ns |-> cfg[1], neutral_ns |-> cfg[2], min_ns |-> cfg[3],
               max_ns |-> cfg[4], base |-> FALSE, enabled |-> FALSE]
        x  == export_pwm(hw, e)
        b  == ServoBringUp(Begin(x.hw, F), cfg[1], cfg[2])
    IN  IF x.rc # 0
        THEN /\ g_servo' = s0
             /\ hw' = x.hw
             /\ pwm_ret' = Result("servo_init", x.rc)
             /\ pwm_call' = Call([NoArg EXCEPT !.cfg = cfg], e, <<>>)
             /\ Spend(F, 0)
        ELSE /\ g_servo' = [s0 EXCEPT !.base = TRUE, !.enabled = (b.rc = 0)]
             /\ hw' = b.m.hw
             /\ pwm_ret' = Result("servo_init", b.rc)
             /\ pwm_call' = Call([NoArg EXCEPT !.cfg = cfg], e, b.m.log)
             /\ Spend(F, b.m.n)

servo_init ==
    /\ CallsServo
    /\ \E cfg \in ServoConfigs, e \in ExportChoices(hw, FALSE),
          F \in Faults("servo_init", 6) :
          servo_init_call(cfg, e, F)
    /\ UNCHANGED <<g_pwm_dir, g_period_ns, g_duty_frac, encVars>>

(* servo_set_pulse_ns, were it to write the duty once more after a write
   that failed *)
SetPulseNsRetries(op, arg, duty_ns, F) ==
    IF ~g_servo.enabled
    THEN /\ pwm_ret' = Result(op, -EIO)
         /\ pwm_call' = Call(arg, "none", <<>>)
         /\ Spend(F, 0)
         /\ UNCHANGED hw
    ELSE LET v  == clamp(duty_ns, g_servo.min_ns, g_servo.max_ns)
             w1 == Wr(Begin(hw, F), "duty_cycle", v)
             w  == IF w1.ok THEN w1 ELSE Wr(w1, "duty_cycle", v)
         IN  /\ hw' = w.hw
             /\ pwm_ret' = Result(op, IF w.ok THEN 0 ELSE -1)
             /\ pwm_call' = Call(arg, "none", w.log)
             /\ Spend(F, w.n)

(* servo.c 145-155 *)
SetPulseNs(op, arg, duty_ns, F) ==
    IF ~g_servo.enabled
    THEN /\ pwm_ret' = Result(op, -EIO)
         /\ pwm_call' = Call(arg, "none", <<>>)
         /\ Spend(F, 0)
         /\ UNCHANGED hw
    ELSE LET w == Wr(Begin(hw, F), "duty_cycle",
                     clamp(duty_ns, g_servo.min_ns, g_servo.max_ns))
         IN  /\ hw' = w.hw
             /\ pwm_ret' = Result(op, IF w.ok THEN 0 ELSE -1)
             /\ pwm_call' = Call(arg, "none", w.log)
             /\ Spend(F, w.n)

servo_set_pulse_ns ==
    /\ CallsServo
    /\ \E duty_ns \in PulseInputs, F \in Faults("servo_set_pulse_ns", 1) :
          SetPulseNs("servo_set_pulse_ns", [NoArg EXCEPT !.ns = duty_ns],
                     duty_ns, F)
    /\ UNCHANGED <<g_servo, g_pwm_dir, g_period_ns, g_duty_frac, encVars>>

(* servo.c 157-160 *)
servo_right ==
    /\ CallsServo
    /\ \E pct \in PctInputs, F \in Faults("servo_right", 1) :
          SetPulseNs("servo_right", [NoArg EXCEPT !.pct = pct],
                     pct_to_ns(g_servo, pct, 1), F)
    /\ UNCHANGED <<g_servo, g_pwm_dir, g_period_ns, g_duty_frac, encVars>>

(* servo.c 162-165 *)
servo_left ==
    /\ CallsServo
    /\ \E pct \in PctInputs, F \in Faults("servo_left", 1) :
          SetPulseNs("servo_left", [NoArg EXCEPT !.pct = pct],
                     pct_to_ns(g_servo, pct, -1), F)
    /\ UNCHANGED <<g_servo, g_pwm_dir, g_period_ns, g_duty_frac, encVars>>

(* servo.c 167-170 *)
servo_stop ==
    /\ CallsServo
    /\ \E F \in Faults("servo_stop", 1) :
          SetPulseNs("servo_stop", NoArg, g_servo.neutral_ns, F)
    /\ UNCHANGED <<g_servo, g_pwm_dir, g_period_ns, g_duty_frac, encVars>>

(* servo_close, were it to report a write that failed *)
servo_closeReportsFailure ==
    /\ CallsServo
    /\ \E F \in Faults("servo_close", 2) :
          LET m0 == Begin(hw, F)
              m1 == IF g_servo.base THEN Wr(m0, "enable", 0)
                    ELSE WrNoFile(m0, "enable", 0)
              m2 == Unexport(m1)
          IN  /\ hw' = m2.hw
              /\ pwm_call' = Call(NoArg, "none", m2.log)
              /\ pwm_ret' = Result("servo_close",
                                   IF m1.ok /\ m2.ok THEN 0 ELSE -1)
              /\ Spend(F, m2.n)
    /\ g_servo' = [g_servo EXCEPT !.enabled = FALSE]
    /\ UNCHANGED <<g_pwm_dir, g_period_ns, g_duty_frac, encVars>>

(* servo.c 172-189 *)
servo_close ==
    /\ CallsServo
    /\ \E F \in Faults("servo_close", 2) :
          LET m0 == Begin(hw, F)
              m1 == IF g_servo.base THEN Wr(m0, "enable", 0)
                    ELSE WrNoFile(m0, "enable", 0)
              m2 == Unexport(m1)
          IN  /\ hw' = m2.hw
              /\ pwm_call' = Call(NoArg, "none", m2.log)
              /\ Spend(F, m2.n)
    /\ g_servo' = [g_servo EXCEPT !.enabled = FALSE]
    /\ pwm_ret' = Result("servo_close", 0)
    /\ UNCHANGED <<g_pwm_dir, g_period_ns, g_duty_frac, encVars>>

PwmNext ==
    \/ PWM0_init
    \/ PWM0_set_freq
    \/ PWM0_set_duty
    \/ PWM0_cleanup
    \/ servo_init
    \/ servo_set_pulse_ns
    \/ servo_right
    \/ servo_left
    \/ servo_stop
    \/ servo_close

-----------------------------------------------------------------------------
EncNext ==
    \/ rotaryEncoder_init
    \/ rotaryEncoder_cleanup
    \/ rotaryEncoder_cleanup_join
    \/ rotaryEncoder_get_position
    \/ rotaryEncoder_set_position
    \/ rotaryEncoder_button_pressed
    \/ encoder_thread_start
    \/ encoder_thread_loop
    \/ encoder_thread_quad
    \/ encoder_thread_button
    \/ KnobTurn
    \/ ButtonToggle

(* The encoder service, with the PWM channel left alone *)
Init == EncInit /\ PwmInit /\ hw = HwFresh /\ pwm_quota.name = "servo"

Spec == Init /\ [][EncNext]_vars

(* The PWM channel and the servo, with the encoder service never started *)
PwmSpecInit == PwmInit /\ EncInit /\ quota.name = "rotate" /\ ab_line = 0

PwmSpec == PwmSpecInit /\ [][PwmNext]_vars

(* The polling thread is a thread of its own that the scheduler keeps
   running (its loop only sleeps 1 ms), and pthread_join returns once the
   thread has ended. *)
FairSpec ==
    /\ Init /\ [][EncNext]_vars
    /\ WF_vars(encoder_thread_start)
    /\ WF_vars(encoder_thread_loop)
    /\ WF_vars(encoder_thread_quad)
    /\ WF_vars(encoder_thread_button)
    /\ WF_vars(rotaryEncoder_cleanup_join)

-----------------------------------------------------------------------------
(* Properties of the encoder service *)

(* One tick's decoding step: rotary.c 86-101 *)
QuadStep == pc = "quad" /\ pc' = "button"

(* C1: whenever a tick samples the code that follows the previous code in the
   forward cycle 00->01->11->10->00, the position counter goes up by exactly
   one (in 32 bits); whenever it samples the code that follows in the reverse
   cycle, the counter goes down by exactly one. *)
C1_StepPerTransition ==
    [][ QuadStep =>
          /\ IsFwd(last, last') => g_pos' = Inc32(g_pos)
          /\ IsBwd(last, last') => g_pos' = Dec32(g_pos) ]_vars

(* Three forward transitions after init: 00->01->11->10 *)
C1_Witness == pc = "button" /\ diff = 14 /\ g_pos = 3 /\ ~cal_ok

(* C2: of the 16 (previous code, current code) pairs, a tick changes the
   position exactly for the 4 forward and the 4 backward pairs; the 4
   no-change pairs and the 4 two-bit jumps leave it as it is. *)
C2_OnlyValidPairsMove ==
    [][ (QuadStep /\ IsCode(last) /\ IsCode(last')) =>
          (g_pos' # g_pos <=> (IsFwd(last, last') \/ IsBwd(last, last'))) ]_vars

(* A tick has decoded the two-bit jump 01->10 and the position stayed. *)
C2_Witness == pc = "button" /\ diff = 6 /\ g_pos = 0 /\ ~cal_ok /\ last = 2

(* C3: the calls of rotaryEncoder_button_pressed that returned true never
   outnumber the stores of 1 by the poller, and a flag that is set is one
   store not yet reported. *)
C3_AtMostOneReportPerPress ==
    /\ credit >= 0
    /\ g_button_edge # 0 => credit >= 1

(* A press was registered and one call has returned true for it. *)
C3_Witness == obs.set /\ obs_reports = 1 /\ credit = 0 /\ g_button_edge = 0

(* The press the poller observed last is still held: its last observed
   change went from released to pressed.  (A later sample that differs,
   a failed read included, is a new observation.) *)
HeldPress == obs.kind = "rise" /\ obs.from = 0

(* No read has failed so far in this run. *)
NoReadFailed == \A s \in Scenarios : s.name = quota.name => s.fails = quota.fails

(* C4: a held press observed more than 50 ms after the level change observed
   before it, in a run whose reads all succeed, is reported exactly once:
   one call has returned true, or the flag still waits for the first call. *)
C4_HeldPressReportedOnce ==
    (NoReadFailed /\ HeldPress /\ obs.gap \in {"fraction", "over"}) =>
        obs_reports + g_button_edge = 1

(* What the poller does keep: the same with an elapsed time of 51 ms or
   more, which dt_ms cannot round down to 50. *)
HeldPressOver51MsReportedOnce ==
    (HeldPress /\ obs.gap = "over") => obs_reports + g_button_edge = 1

(* C5: a falling edge never sets the flag; a rising edge observed less than
   50 ms after the rising edge observed before it never sets the flag; the
   poller's last level follows the sample in both cases. *)
C5_DebounceWindow ==
    /\ obs.kind = "fall" => ~obs.set
    /\ (obs.kind = "rise" /\ obs.rgap = "within") => ~obs.set
    /\ pc \in {"check", "quad"} => last_sw = sw

(* A second rising edge inside the window: seen, tracked, not registered. *)
C5_Witness ==
    /\ obs.kind = "rise" /\ obs.rgap = "within" /\ ~obs.set
    /\ pc = "check" /\ last_sw = 1 /\ credit = 1

(* C6: when an export, a direction write or an open() of rotaryEncoder_init
   fails, the call returns -1, g_run is clear and no polling thread runs. *)
C6_FailedInitStartsNothing ==
    (ret.op = "init" /\ ret.cause \in {"export", "dir", "open"}) =>
        /\ ret.val = -1
        /\ g_run = 0
        /\ pc \in {"none", "exited"}

(* An open() failed, with one line opened and another not. *)
C6_Witness ==
    /\ ret.op = "init" /\ ret.cause = "open"
    /\ fd_a = FdOpen /\ fd_sw = -1 /\ pc = "none"

(* C7: with the service stopped (g_run clear, no cleanup in progress) a
   rotaryEncoder_cleanup call joins nothing and leaves the shared state,
   the thread and the descriptors as they are. *)
C7_CleanupIdempotent ==
    [][ (ctl = "idle" /\ g_run = 0) =>
          /\ ctl' = "idle"
          /\ (ret' # ret /\ ret'.op = "cleanup") =>
                /\ ret'.cause = "noop"
                /\ UNCHANGED <<encShared, encThread, encEnv, encHist>> ]_vars

(* A cleanup call after the first cleanup has joined the thread. *)
C7_Witness ==
    /\ ret.op = "cleanup" /\ ret.cause = "noop"
    /\ pc = "exited" /\ ctl = "idle" /\ fd_a = -1

(* C8: once rotaryEncoder_cleanup has cleared g_run and waits in
   pthread_join, the poller (scheduled fairly) exits and the join returns;
   and the poller begins at most one tick after g_run was cleared, the one
   it had already entered when it last tested the flag. *)
C8_BoundedShutdown ==
    /\ [](stop_ticks <= 1)
    /\ (ctl = "join") ~> (ctl = "idle" /\ pc = "exited")

(* The flag was cleared inside a tick; the poller finished it, exited, and
   cleanup returned. *)
C8_Witness ==
    /\ stop_ticks = 1 /\ pc = "exited" /\ ctl = "idle"
    /\ ret.op = "cleanup" /\ ret.cause = "joined"

(* C9: after rotaryEncoder_set_position(v) and k forward steps (and nothing
   else that moves the counter) a read returns v + k in 32 bits, and the
   code the next step is decoded against is the code sampled last. *)
C9_SetPositionKeepsDecoding ==
    /\ cal_ok => GetPosition = Add32(cal_v, cal_k)
    /\ pc \in {"check", "quad", "button"} => last = prev_sample

(* set_position(INT_MAX) followed by two forward steps: the counter wrapped. *)
C9_Witness == cal_ok /\ cal_v = IntMax /\ cal_k = 2 /\ g_pos = IntMin + 1

(* C19 as stated: the debounce interval runs from the last registered
   rising edge, so that every rising edge observed more than 50 ms after it
   (here 51 ms or more) sets the flag, whatever falling or rejected rising
   edges came in between; the reads of the run all succeeding, and the edge
   not in the 50 to 51 ms after the change before it that dt_ms can take
   for 50 (C4). *)
C19_DebounceFromRegisteredEdge ==
    (/\ NoReadFailed /\ obs.kind = "rise" /\ obs.reg = "over"
     /\ obs.gap # "fraction") => obs.set

(* C19, amended: the debounce interval runs from the last change of the
   button sample the poller observed, rising or falling, registered or not:
   a rising edge observed 51 ms or more after that change sets the flag,
   and one observed within 50 ms of it does not, however long ago the last
   registered rising edge was. *)
C19_DebounceFromLastChange ==
    /\ (obs.kind = "rise" /\ obs.gap = "over") => obs.set
    /\ (obs.kind = "rise" /\ obs.gap = "within") => ~obs.set

(* A press was registered, released and pressed again: the second rising
   edge came more than 51 ms after the registered one and within 50 ms of
   the release, and did not set the flag. *)
C19_Witness ==
    /\ NoReadFailed /\ obs.kind = "rise" /\ obs.from = 0
    /\ obs.reg = "over" /\ obs.gap = "within" /\ ~obs.set

(* the transition codes that move the counter *)
StepCodes == {1, 7, 14, 8, 2, 4, 13, 11}

(* C20: a polling tick in which the read of a line fails changes neither
   the position counter nor the button flag: when the read of A or of B
   failed the tick leaves g_pos and, in its button half, g_button_edge as
   they were; when the read of the button failed the tick has not moved
   g_pos and leaves g_button_edge as it was. *)
C20_FailedTickChangesNothing ==
    [][ /\ (pc = "quad" /\ pc' = "button" /\ last' < 0) => g_pos' = g_pos
        /\ (pc = "button" /\ pc' = "check" /\ last < 0) =>
              g_button_edge' = g_button_edge
        /\ (pc = "button" /\ pc' = "check" /\ sw' < 0) =>
              g_button_edge' = g_button_edge /\ diff \notin StepCodes ]_vars

(* One tick's button step: rotary.c 104-116 *)
ButtonStep == pc = "button" /\ pc' = "check"

(* C21: a tick in which a read fails is skipped as a whole: a failed read of
   A or of B leaves the code the decoder holds as it was, a failed read of
   the button leaves the button level it holds as it was, and so the next
   code read successfully is decoded against the last code read
   successfully: when it follows (precedes) that code in the cycle the
   counter goes up (down) by one. *)
C21_FailedTickSkipped ==
    [][ /\ (QuadStep /\ last' < 0) => last' = last
        /\ (ButtonStep /\ sw' < 0) => last_sw' = last_sw
        /\ (QuadStep /\ last' >= 0 /\ good_code # NoCode) =>
              /\ IsFwd(good_code, last') => g_pos' = Inc32(g_pos)
              /\ IsBwd(good_code, last') => g_pos' = Dec32(g_pos) ]_vars

(* C22: the poller stores 1 into the flag only when the button line has
   gone from released to pressed since its last store (since program start
   for the first), whatever the samples: reads that fail and a button held
   when the thread starts included. *)
C22_NoSetWithoutPress ==
    [][ (ButtonStep /\ credit' = credit + 1) => rose ]_vars

(* C23: at most one polling thread exists at any time, whatever calls of
   rotaryEncoder_init and rotaryEncoder_cleanup the controlling thread makes:
   an init call while the service runs returns 0, starts no thread and
   leaves the position and the flag as they are; a thread is started only
   when every thread started before it has ended and has been joined. *)
C23_OnePollingThread ==
    /\ [](live <= 1)
    /\ [][ /\ (g_run # 0 /\ ret' # ret /\ ret'.op = "init") =>
                /\ ret'.val = 0
                /\ UNCHANGED <<g_pos, g_button_edge, g_run, encThread, live>>
           /\ live' > live => (live = 0 /\ pc \in {"none", "exited"}) ]_vars

(* A second thread was started after the first had been joined, and init
   was called again while it runs. *)
C23_Witness ==
    /\ ret.op = "init" /\ ret.cause = "running" /\ ret.val = 0
    /\ live = 1 /\ pc \notin {"none", "exited"}
    /\ quota.name = "restart" /\ quota.starts = 0

-----------------------------------------------------------------------------
(* Properties of the PWM channel *)

(* C10: whenever the output is enabled, the duty the channel holds is
   strictly greater than 0 and strictly less than the period it holds. *)
C10_DutyStrictlyInsidePeriod ==
    hw.enable = 1 => (0 < hw.duty /\ hw.duty < hw.period)


(* What the claims about the channel are stated with *)
Abs(x) == IF x < 0 THEN -x ELSE x

(* the ratio f held to 5%..95% *)
InBand(f) ==
    IF FracLess(f, RatioMin) THEN RatioMin
    ELSE IF FracLess(RatioMax, f) THEN RatioMax ELSE f

(* v is f of per, to the nearest nanosecond *)
IsShareOf(v, f, per) == 2 * Abs(v * f.d - f.n * per) <= f.d

(* the last call, by name, returned success *)
Succeeded(op) == pwm_ret.op = op /\ pwm_ret.val = 0

(* C11: after PWM0_set_duty(f) has returned success, the duty the channel
   holds is f, held to 5%..95%, of the period it holds, and is strictly
   between 0 and that period. *)
C11_SetDutyCommitsClampedShare ==
    Succeeded("PWM0_set_duty") =>
        /\ IsShareOf(hw.duty, InBand(pwm_call.arg.duty), hw.period)
        /\ 0 < hw.duty /\ hw.duty < hw.period

(* the duty v is within 5%..95% of the period per *)
WithinBand(v, per) == per <= 20 * v /\ 20 * v <= 19 * per

(* the period PWM0_init was asked for: that of hz (of 100 Hz for hz <= 0)
   to the nearest nanosecond, and no less than one *)
RequestedPeriod(hz) ==
    LET h == IF hz <= 0 THEN 100 ELSE hz
        q == NsPerSecond \div h
        p == IF 2 * (NsPerSecond - q * h) >= h THEN q + 1 ELSE q
    IN  IF p = 0 THEN 1 ELSE p

(* C12: whenever PWM0_init or servo_init returns success, the channel holds
   exactly the period asked for, a duty within 5%..95% of it and enable = 1,
   and the state in memory records the channel as enabled with that
   period. *)
C12_OpenLeavesChannelProgrammed ==
    /\ Succeeded("PWM0_init") =>
          /\ hw.period = RequestedPeriod(pwm_call.arg.hz)
          /\ WithinBand(hw.duty, hw.period)
          /\ hw.enable = 1
          /\ g_pwm_dir /\ g_period_ns = hw.period
    /\ Succeeded("servo_init") =>
          /\ hw.period = pwm_call.arg.cfg[1]
          /\ WithinBand(hw.duty, hw.period)
          /\ hw.enable = 1
          /\ g_servo.enabled /\ g_servo.period_ns = hw.period

(* the last call asked for the export of the channel and its directory
   never appeared: the write succeeded, or failed with EBUSY, or failed
   otherwise *)
ExportCameToNothing == pwm_call.e \in {"never", "busy", "error"}

(* the last call issued a write of v to the attribute attr *)
Wrote(attr, v) ==
    \E i \in 1..Len(pwm_call.log) :
        pwm_call.log[i].attr = attr /\ pwm_call.log[i].v = v

(* C13: when the directory of the channel never appears after the export
   request, whatever became of the export write, PWM0_init and servo_init
   return an error, issue no write of 1 to enable, leave the channel not
   enabled in memory and leave the hardware as it was. *)
C13_NoChannelNoEnable ==
    (pwm_ret.op \in {"PWM0_init", "servo_init"} /\ ExportCameToNothing) =>
        /\ pwm_ret.val < 0
        /\ ~Wrote("enable", 1)
        /\ ~hw.exists /\ hw = pwm_call.hw0
        /\ pwm_ret.op = "servo_init" => ~g_servo.enabled
        /\ pwm_ret.op = "PWM0_init" => ~g_pwm_dir /\ g_period_ns = pwm_call.per0

(* servo_init went on after an export write that succeeded with no
   directory appearing, and its write of the period failed. *)
C13_Witness ==
    /\ pwm_ret.op = "servo_init" /\ pwm_call.e = "never"
    /\ Len(pwm_call.log) = 3 /\ pwm_call.log[3].attr = "period"
    /\ ~pwm_call.log[3].ok

(* The writes of the last call, by the stage of PWM0_set_freq that issued
   them *)
Rank(st) ==
    CASE st = "A" -> 1 [] st = "B" -> 2 [] st = "C1" -> 3 [] st = "C2" -> 4
      [] OTHER -> 0

WritesOf(st) == { i \in 1..Len(pwm_call.log) : pwm_call.log[i].st = st }

Tried(st) == WritesOf(st) # {}

AllWritten(st) == Tried(st) /\ \A i \in WritesOf(st) : pwm_call.log[i].ok

(* the last call was a PWM0_set_freq that got to program the channel: the
   directory was known and hz > 0 *)
ProgrammedFreq ==
    pwm_ret.op = "PWM0_set_freq" /\ g_pwm_dir /\ pwm_call.arg.hz > 0

(* C14: PWM0_set_freq tries fast path A, then fast path B, then the
   fallback C at most twice, in that order; it returns success as soon as
   every write of one of them has succeeded, with no write of a later one
   issued; it returns an error only when both attempts of C have failed. *)
C14_LadderInOrder ==
    ProgrammedFreq =>
        /\ Tried("A")
        /\ \A i, j \in 1..Len(pwm_call.log) :
              i < j => Rank(pwm_call.log[i].st) <= Rank(pwm_call.log[j].st)
        /\ Tried("C2") => Tried("C1")
        /\ Tried("C1") => Tried("B")
        /\ Cardinality(WritesOf("C1")) <= 5 /\ Cardinality(WritesOf("C2")) <= 5
        /\ \A st \in {"A", "B", "C1", "C2"} :
              AllWritten(st) =>
                  /\ pwm_ret.val = 0
                  /\ \A i \in 1..Len(pwm_call.log) :
                        Rank(pwm_call.log[i].st) <= Rank(st)
        /\ pwm_ret.val # 0 =>
              /\ Tried("C1") /\ ~AllWritten("C1")
              /\ Tried("C2") /\ ~AllWritten("C2")

(* A failed (the duty held exceeds the new period), a write of B failed,
   and the first attempt of C succeeded. *)
C14_Witness ==
    /\ ProgrammedFreq /\ pwm_ret.val = 0
    /\ ~AllWritten("A") /\ ~AllWritten("B") /\ AllWritten("C1")
    /\ ~Tried("C2")

(* C15: after PWM0_set_freq(hz) has returned success, the channel holds the
   period of hz and, as its duty, the ratio committed before the call (held
   to 5%..95%) of that period; PWM0_set_freq(50) then PWM0_set_freq(100) on
   an enabled channel ends with a period of 10,000,000 ns and the ratio
   within one percent of what it was. *)
C15_SetFreqKeepsRatio ==
    Succeeded("PWM0_set_freq") =>
        /\ hw.period = RequestedPeriod(pwm_call.arg.hz)
        /\ IsShareOf(hw.duty, InBand(pwm_call.frac0), hw.period)
        /\ (pwm_call.arg.hz = 100 /\ pwm_call.hw0.period = 20000000
              /\ pwm_call.hw0.enable = 1 /\ pwm_call.per0 = 20000000) =>
              /\ hw.period = 10000000
              /\ LET f == InBand(pwm_call.frac0)
                 IN  100 * Abs(hw.duty * f.d - f.n * hw.period)
                        <= f.d * hw.period

(* what a close can do to a channel h: disable it, unexport it, both, or
   nothing *)
ClosedFrom(h) ==
    { h, [h EXCEPT !.enable = 0], [h EXCEPT !.exists = FALSE],
      [h EXCEPT !.enable = 0, !.exists = FALSE] }

(* C16: servo_close and PWM0_cleanup are best-effort and idempotent:
   whatever becomes of their writes they report no failure and leave the
   servo recorded as not enabled, never enabling or exporting the channel;
   a second close returns what the first returned and leaves the state in
   memory as the first left it, and the channel too once the first had
   unexported (PWM0_cleanup: disabled) it. *)
C16_CloseBestEffortIdempotent ==
    /\ pwm_ret.op = "servo_close" =>
          /\ pwm_ret.val = 0
          /\ ~g_servo.enabled
          /\ g_servo = [pwm_call.servo0 EXCEPT !.enabled = FALSE]
          /\ hw \in ClosedFrom(pwm_call.hw0)
          /\ pwm_call.after_close =>
                /\ g_servo = pwm_call.servo0
                /\ ~pwm_call.hw0.exists => hw = pwm_call.hw0
    /\ pwm_ret.op = "PWM0_cleanup" =>
          /\ pwm_ret.val = 0
          /\ g_period_ns = pwm_call.per0 /\ g_duty_frac = pwm_call.frac0
          /\ hw \in {pwm_call.hw0, [pwm_call.hw0 EXCEPT !.enable = 0]}
          /\ pwm_call.hw0.enable = 0 => hw = pwm_call.hw0

(* A servo that had been enabled was closed twice; both writes of the
   second close failed, the channel being gone, and it returned 0. *)
C16_Witness ==
    /\ pwm_ret = Result("servo_close", 0) /\ pwm_call.after_close
    /\ pwm_call.servo0.base /\ pwm_call.hw0.period = 20000000
    /\ pwm_call.hw0.polarity = "normal"
    /\ Len(pwm_call.log) = 2
    /\ ~pwm_call.log[1].ok /\ ~pwm_call.log[2].ok
    /\ hw = pwm_call.hw0 /\ hw.enable = 0

(* d held to lo..hi, for lo <= hi *)
HeldTo(d, lo, hi) == IF d < lo THEN lo ELSE IF d > hi THEN hi ELSE d

(* C17: on an enabled servo with min_ns <= max_ns, servo_set_pulse_ns(d)
   issues exactly one write, of d held to min_ns..max_ns, to duty_cycle;
   when it succeeds the channel holds that duty and 0 is returned; when it
   fails an error is returned with no retry and no other write, the channel
   left as it was. *)
C17_SetPulseOneWrite ==
    (/\ pwm_ret.op = "servo_set_pulse_ns"
     /\ pwm_call.servo0.enabled
     /\ pwm_call.servo0.min_ns <= pwm_call.servo0.max_ns) =>
        LET v == HeldTo(pwm_call.arg.ns, pwm_call.servo0.min_ns,
                        pwm_call.servo0.max_ns)
        IN  /\ Len(pwm_call.log) = 1
            /\ pwm_call.log[1].attr = "duty_cycle"
            /\ pwm_call.log[1].v = v
            /\ IF pwm_call.log[1].ok
               THEN pwm_ret.val = 0 /\ hw = [pwm_call.hw0 EXCEPT !.duty = v]
               ELSE pwm_ret.val < 0 /\ hw = pwm_call.hw0
            /\ g_servo = pwm_call.servo0

(* servo_set_pulse_ns(25000000) on an enabled servo wrote max_ns, the write
   failed, and the error was returned after that one write. *)
C17_Witness ==
    /\ pwm_ret.op = "servo_set_pulse_ns" /\ pwm_ret.val < 0
    /\ pwm_call.servo0.enabled /\ pwm_call.arg.ns = 25000000
    /\ pwm_call.log = <<[st |-> "call", attr |-> "duty_cycle",
                         v |-> pwm_call.servo0.max_ns, ok |-> FALSE]>>

(* C18: on a servo with min_ns <= neutral_ns <= max_ns and for pct in
   0..100, servo_left(pct) commits neutral_ns less pct percent of the span
   from neutral_ns to min_ns, and servo_right(pct) commits neutral_ns plus
   pct percent of the span from neutral_ns to max_ns; servo_left(100)
   commits min_ns and servo_right(100) commits max_ns. *)
C18_LeftRightSpans ==
    LET sv  == pwm_call.servo0
        pct == pwm_call.arg.pct
    IN  (/\ pwm_ret.val = 0 /\ sv.enabled /\ pct \in 0..PctMax
         /\ sv.min_ns <= sv.neutral_ns /\ sv.neutral_ns <= sv.max_ns) =>
            /\ pwm_ret.op = "servo_left" =>
                  /\ hw.duty = sv.neutral_ns
                                 - ((sv.neutral_ns - sv.min_ns) * pct) \div PctMax
                  /\ pct = PctMax => hw.duty = sv.min_ns
            /\ pwm_ret.op = "servo_right" =>
                  /\ hw.duty = sv.neutral_ns
                                 + ((sv.max_ns - sv.neutral_ns) * pct) \div PctMax
                  /\ pct = PctMax => hw.duty = sv.max_ns

(* The writes of the last call issued by the bring-up attempt tagged st,
   the write to polarity (servo.c 133-135) left out *)
AttemptWrites(st) ==
    LET In(e) == e.st = st /\ e.attr # "polarity"
    IN  SelectSeq(pwm_call.log, In)

Tries == {TryTag(k) : k \in 0..(BringUpTries - 1)}

(* the last call was an open *)
Opened == pwm_ret.op \in {"PWM0_init", "servo_init"}

(* w is a beginning of: disable, duty = 1 ns, period, target duty, enable;
   with the enable reached only over a period write and a duty write that
   succeeded *)
InBringUpOrder(w) ==
    /\ Len(w) <= 5
    /\ Len(w) >= 1 => (w[1].attr = "enable" /\ w[1].v = 0)
    /\ Len(w) >= 2 => (w[2].attr = "duty_cycle" /\ w[2].v = 1)
    /\ Len(w) >= 3 => w[3].attr = "period"
    /\ Len(w) >= 4 => (w[4].attr = "duty_cycle" /\ w[3].ok)
    /\ Len(w) >= 5 => (w[5].attr = "enable" /\ w[5].v = 1 /\ w[3].ok /\ w[4].ok)

(* C24: every bring-up attempt of PWM0_init and of servo_init issues its
   writes in the order disable, duty = 1 ns, period, target duty, enable
   (as far as it gets), every write of the call belongs to an attempt, and
   1 is written to enable only after the period write and the target duty
   write of the same attempt have both succeeded. *)
C24_BringUpOrder ==
    Opened =>
        /\ \A i \in 1..Len(pwm_call.log) : pwm_call.log[i].st \in Tries
        /\ \A st \in Tries : InBringUpOrder(AttemptWrites(st))
        /\ \A st \in Tries : Len(AttemptWrites(st)) \in {0, 3, 4, 5}

(* PWM0_init: the target duty write of the first attempt failed, no enable
   was written in it, and the second attempt went through all five. *)
C24_Witness ==
    /\ Succeeded("PWM0_init")
    /\ Len(AttemptWrites("try1")) = 4 /\ ~AttemptWrites("try1")[4].ok
    /\ Len(AttemptWrites("try2")) = 5 /\ AttemptWrites("try2")[5].ok

(* the bring-up attempt tagged st went through: its fifth write, of 1 to
   enable, succeeded *)
AttemptDone(st) ==
    Len(AttemptWrites(st)) = 5 /\ AttemptWrites(st)[5].ok

(* it was made and did not go through *)
AttemptFailed(st) == Tried(st) /\ ~AttemptDone(st)

(* C25: an open that gets to program the channel makes a further bring-up
   attempt, from the disable step, whenever the period, duty or enable
   write of an attempt has failed, up to 3 attempts in all; it returns an
   error if and only if all 3 were made and failed. *)
C25_OpenRetriesUpToThree ==
    (Opened /\ Tried(TryTag(0))) =>
        /\ \A k \in 0..(BringUpTries - 2) :
              AttemptFailed(TryTag(k)) => Tried(TryTag(k + 1))
        /\ pwm_ret.val # 0 <=> \A st \in Tries : AttemptFailed(st)

(* the fraction of the period that servo_init is given as its initial
   duty: neutral_ns of period_ns *)
NeutralShare(cfg) == Frac(cfg[2], cfg[1])

(* C26: the duty a successful open commits is the initial duty fraction it
   was given, held to 5%..95%, of the period: 5% of it for a fraction below
   5%, 95% of it for a fraction above 95%. *)
C26_OpenClampsInitialDuty ==
    /\ Succeeded("PWM0_init") =>
          IsShareOf(hw.duty, InBand(pwm_call.arg.duty), hw.period)
    /\ Succeeded("servo_init") =>
          IsShareOf(hw.duty, InBand(NeutralShare(pwm_call.arg.cfg)), hw.period)

(* the period writes of the last call *)
PeriodWrites ==
    { i \in 1..Len(pwm_call.log) : pwm_call.log[i].attr = "period" }

(* before its write i, and in the same attempt or strategy, the last call
   wrote 1 ns to duty_cycle *)
Primed(i) ==
    \E j \in 1..(i - 1) :
        /\ pwm_call.log[j].st = pwm_call.log[i].st
        /\ pwm_call.log[j].attr = "duty_cycle"
        /\ pwm_call.log[j].v = 1

(* no read or write of the run has failed for a reason of its own *)
NoFaultRun == \A sc \in PwmScenarios : sc.name = pwm_quota.name => sc.faults = 0

(* the last call was one that programs the period *)
Programs == pwm_ret.op \in {"PWM0_init", "servo_init", "PWM0_set_freq"}

(* C27 as stated: an open and every strategy of PWM0_set_freq issue a
   period write only after a write of 1 ns to the duty in the same
   sequence, unless the duty the channel holds does not exceed the new
   period; no period write to an exported channel is rejected (no write
   failing for a reason of its own); the channel never holds a duty above
   its period. *)
C27_NoPeriodWriteOverStaleDuty ==
    /\ hw.duty <= hw.period
    /\ Programs =>
          \A i \in PeriodWrites :
              /\ Primed(i) \/ pwm_call.hw0.duty <= pwm_call.log[i].v
              /\ (NoFaultRun /\ hw.exists) => pwm_call.log[i].ok

(* C27, amended: an open and the strategies B and C of PWM0_set_freq issue
   a period write only after a write of 1 ns to the duty in the same
   sequence, and (no write failing for a reason of its own) that period
   write to an exported channel is accepted; fast path A writes the period
   with no write before it, and is rejected exactly when the duty the
   channel holds exceeds the new period; the channel never holds a duty
   above its period. *)
C27_PeriodPrimedOutsideFastPathA ==
    /\ hw.duty <= hw.period
    /\ Programs =>
          \A i \in PeriodWrites :
              /\ pwm_call.log[i].st # "A" => Primed(i)
              /\ pwm_call.log[i].st = "A" => ~Primed(i)
              /\ (NoFaultRun /\ hw.exists /\ pwm_call.log[i].st # "A") =>
                    pwm_call.log[i].ok
              /\ (NoFaultRun /\ hw.exists /\ pwm_call.log[i].st = "A") =>
                    (pwm_call.log[i].ok <=>
                        pwm_call.hw0.duty <= pwm_call.log[i].v)

(* PWM0_set_freq on a channel whose duty exceeds the new period, no write
   failing for a reason of its own: the period write of fast path A was
   rejected, fast path B primed the duty and went through. *)
C27_Witness ==
    /\ Succeeded("PWM0_set_freq") /\ NoFaultRun
    /\ pwm_call.hw0.duty > RequestedPeriod(pwm_call.arg.hz)
    /\ ~AllWritten("A") /\ AllWritten("B") /\ ~Tried("C1")
    /\ \E i \in PeriodWrites : pwm_call.log[i].st = "B" /\ Primed(i)

(* the last call was a PWM0_set_duty whose direct write of the duty was
   rejected: it took the fallback of PWM0.c 262-273 *)
SetDutyFellBack ==
    /\ pwm_ret.op = "PWM0_set_duty"
    /\ pwm_call.log # <<>> /\ ~pwm_call.log[1].ok

(* C28: when PWM0_set_duty takes its fallback, the channel is enabled on
   return exactly if it was enabled at the call, whether or not the write
   of the target duty then succeeds, and also when the read of enable
   fails. *)
C28_SetDutyRestoresEnable ==
    SetDutyFellBack => hw.enable = pwm_call.hw0.enable

(* C29: whenever PWM0_set_freq returns success the output of the channel
   is enabled, whether it was enabled or disabled at the call and whichever
   of the strategies A, B and C succeeded. *)
C29_SetFreqLeavesEnabled ==
    Succeeded("PWM0_set_freq") => hw.enable = 1

(* C30: the period and the duty ratio PWM0.c keeps in memory are what the
   channel last accepted: a PWM0_set_freq or PWM0_set_duty call that
   returns an error leaves g_period_ns and g_duty_frac as they were, and
   in a program that drives the channel through PWM0.c alone the period in
   memory, once one is committed, is the period the channel holds. *)
C30_CacheReflectsHardware ==
    /\ (pwm_ret.op \in {"PWM0_set_freq", "PWM0_set_duty"} /\ pwm_ret.val # 0) =>
          (g_period_ns = pwm_call.per0 /\ g_duty_frac = pwm_call.frac0)
    /\ (pwm_quota.uses = {"PWM0"} /\ g_period_ns > 0) => g_period_ns = hw.period

(* the calls that close the channel: PWM0.c 277-284, servo.c 172-189 *)
CloseOps == {"PWM0_cleanup", "servo_close"}

(* the calls that drive an open channel: PWM0.c 171, 243; servo.c 145-170 *)
SetterOps ==
    {"PWM0_set_freq", "PWM0_set_duty",
     "servo_set_pulse_ns", "servo_right", "servo_left", "servo_stop"}

(* a log in which the channel accepted a write of 1 to enable *)
EnablesOutput(log) ==
    \E i \in 1..Len(log) :
        log[i].attr = "enable" /\ log[i].v = 1 /\ log[i].ok

(* C31: once the channel is closed its output stays disabled until it is
   opened again: a set_pulse_ns, left, right, stop, set_duty or set_freq
   call that follows a close writes no enable = 1 and changes neither the
   duty nor the period of the channel; it fails or has no effect on the
   hardware. *)
C31_ClosedStaysDisabled ==
    [][ (pwm_ret.op \in CloseOps /\ pwm_ret'.op \in SetterOps) =>
            /\ ~EnablesOutput(pwm_call'.log)
            /\ hw'.period = hw.period /\ hw'.duty = hw.duty
            /\ (pwm_ret'.val # 0 \/ hw' = hw) ]_vars

=============================================================================
